---- MODULE Spec2Model ----
(***************************************************************************)
(* Twikit HTTP service: the FastAPI handlers of app/main.py, the           *)
(* TwitterService adapter of app/twitter_client.py and the tweet_logs      *)
(* table of app/database.py, as one state machine.                         *)
(*                                                                         *)
(* Every coroutine is a process.  A step of a process runs from one await  *)
(* that can suspend (an external twikit call, a database statement, the    *)
(* back-off sleep of tenacity) to the next one: the synchronous code in    *)
(* between is atomic on the asyncio event loop.  The external twikit       *)
(* client and pydantic's response validation are the environment: each of  *)
(* their calls nondeterministically returns or raises.  The local SQLite   *)
(* statements are taken to succeed.                                        *)
(*                                                                         *)
(* Texts are sequences of one-character strings, so that str.lower() and   *)
(* the substring test of the keyword check are computed, not assumed.  A   *)
(* run of CJK characters of a message of the source is one element named   *)
(* CJK_<pinyin>; it holds no ASCII letter, so it matches no keyword.       *)
(* A tweet text is abstracted by its length, the only thing the code       *)
(* examines.  Optional values are sequences of length at most one.         *)
(*                                                                         *)
(* A media list is abstracted by its number of items, and a temporary file *)
(* by the request whose bytes it holds.  client.upload_media is taken to   *)
(* read the file it is given when it is called.                            *)
(***************************************************************************)
EXTENDS Integers, Sequences, FiniteSets, TLC

\* ------------------------------------------------------------------ bounds
MaxRequests == 2      \* request coroutines that may be in flight together
MaxRows == 2          \* rows of tweet_logs
MaxClock == 1         \* seconds of CURRENT_TIMESTAMP that pass
MaxRetrySetting == 4  \* largest value of MAX_RETRY_ATTEMPTS that is configured
MaxMedia == 2         \* media items of one request

\* ------------------------------------------------------- program constants
MinTextLength == 1
MaxTextLength == 280
StopAfterAttempt == 3
DefaultLogsLimit == 50
DefaultMaxRetryAttempts == 3

\* ------------------------------------------------------------- optionals
None == <<>>
Some(v) == <<v>>

\* ------------------------------------------------------------------ texts
UpperChars == <<"A","B","C","D","E","F","G","H","I","J","K","L","M",
                "N","O","P","Q","R","S","T","U","V","W","X","Y","Z">>
LowerChars == <<"a","b","c","d","e","f","g","h","i","j","k","l","m",
                "n","o","p","q","r","s","t","u","v","w","x","y","z">>

LowerChar(c) ==
    IF \E i \in 1..Len(UpperChars) : UpperChars[i] = c
    THEN LowerChars[CHOOSE i \in 1..Len(UpperChars) : UpperChars[i] = c]
    ELSE c

Lower(s) == [i \in 1..Len(s) |-> LowerChar(s[i])]

Contains(s, k) ==
    \E i \in 1..(Len(s) - Len(k) + 1) : SubSeq(s, i, i + Len(k) - 1) = k

AuthKeywords ==
    { <<"a","u","t","h">>,
      <<"l","o","g","i","n">>,
      <<"u","n","a","u","t","h","o","r","i","z","e","d">>,
      <<"f","o","r","b","i","d","d","e","n">> }

\* (mutant) the text is not lowered before the keywords are looked for.
IsAuthRelated_CaseSensitive(msg) == \E k \in AuthKeywords : Contains(msg, k)

IsAuthRelated(msg) == \E k \in AuthKeywords : Contains(Lower(msg), k)

\* What the external client raises: the texts of its exceptions.
ErrLoginFailed == <<"L","o","g","i","n"," ","f","a","i","l","e","d">>
ErrTimeout == <<"T","i","m","e","o","u","t">>
ExternalErrors == {ErrLoginFailed, ErrTimeout}

AuthFailedText(e) == <<"CJK_renzheng_shibai", ":", " ">> \o e
PublishFailedText(e) == <<"CJK_fabu_tuiwen_shibai", ":", " ">> \o e
NotInitialisedText == <<"T","w","i","t","t","e","r","CJK_fuwu_wei_chushihua">>
MakedirsErrorText == <<"[","E","r","r","n","o"," ","2","]"," ","N","o"," ",
                       "s","u","c","h"," ","f","i","l","e"," ","o","r"," ",
                       "d","i","r","e","c","t","o","r","y",":"," ","'","'">>
ValidationErrorText == <<"1 validation error for TweetResponse">>
MediaFailedText(e) == <<"CJK_meiti_shangchuan_shibai", ":", " ">> \o e
UnlinkErrorText == <<"[","E","r","r","n","o"," ","2","]"," ","N","o"," ",
                     "s","u","c","h"," ","f","i","l","e"," ","o","r"," ",
                     "d","i","r","e","c","t","o","r","y",":"," ",
                     "'","t","e","m","p","_","m","e","d","i","a","_","i",
                     ".","j","p","g","'">>

\* ------------------------------------------------------------------ state
VARIABLES
    main_twitter_service,   \* app.main.twitter_service (module global)
    tc_twitter_service,     \* app.twitter_client.twitter_service (module global)
    authenticated,          \* TwitterService._authenticated
    cookies_dir,            \* os.path.dirname(self.cookies_file)
    cookies_exist,          \* os.path.exists(self.cookies_file)
    tweet_logs,             \* table tweet_logs, in id order
    posted,                 \* tweets the external client has published
    proc,                   \* the coroutines: 0 is startup_event, 1.. are requests
    answered,               \* the request the last step answered, with its response
    workload,               \* how the requests of the run arrive: see Slots
    max_retry_attempts,     \* settings.max_retry_attempts (MAX_RETRY_ATTEMPTS)
    db_call,                \* the last direct call of a DatabaseManager method
    temp_files              \* temp_media_<i>.jpg in the working directory: the
                            \* request whose bytes it holds, 0 when there is none

vars == <<main_twitter_service, tc_twitter_service, authenticated, cookies_dir,
          cookies_exist, tweet_logs, posted, proc, answered, workload,
          max_retry_attempts, db_call, temp_files>>

\* What no step of a request changes.
Fixed == <<workload, max_retry_attempts, db_call>>

Requests == 1..MaxRequests
Procs == 0..MaxRequests

\* The shapes of a run that are explored: requests served one after the
\* other, filling the table up to MaxRows rows ("serial"); up to MaxRequests
\* requests in flight together, over a table of one row less ("overlap");
\* requests served one after the other under a configured
\* MAX_RETRY_ATTEMPTS, over a table of one row less ("configured"); up to
\* MaxRequests tweets with media in flight together ("media").
Slots == IF workload \in {"overlap", "media"} THEN Requests ELSE {1}
RowCap == IF workload \in {"serial", "media"} THEN MaxRows ELSE MaxRows - 1

MediaItems == 0..(MaxMedia - 1)

NoResp ==
    [status |-> 0, success |-> FALSE, error_code |-> "", details |-> None,
     tweet_id |-> None, health |-> "", twitter_status |-> "",
     timestamp |-> None, logs |-> <<>>, total |-> 0, limit |-> 0]

Idle ==
    [op |-> "none", pc |-> "idle", text |-> 0, log_id |-> 0, attempt |-> 0,
     resp |-> NoResp, err |-> <<>>, etype |-> "none", tweet |-> 0,
     began_unauth |-> FALSE, auth_called |-> FALSE, logins |-> 0, saves |-> 0,
     login_ok |-> FALSE, auth_ret |-> "none", test_ok |-> FALSE, raised |-> <<>>,
     media |-> 0, item |-> 0, media_ids |-> 0, file_lost |-> FALSE]

NoCall ==
    [op |-> "none", log_id |-> 0, tweet_id |-> None, status |-> None,
     retry_count |-> None, error_message |-> None, now |-> 0]

InitState ==
    /\ main_twitter_service = "None"
    /\ tc_twitter_service = "None"
    /\ authenticated = FALSE
    /\ cookies_dir \in {"data", ""}
    /\ cookies_exist \in BOOLEAN
    /\ tweet_logs = <<>>
    /\ posted = 0
    /\ proc = [p \in Procs |-> IF p = 0 THEN [Idle EXCEPT !.op = "startup", !.pc = "init"]
                                ELSE Idle]
    /\ answered = Idle
    /\ db_call = NoCall
    /\ temp_files = [i \in MediaItems |-> 0]

\* MAX_RETRY_ATTEMPTS is not set: the setting has its default.
Init ==
    InitState /\ workload = "serial" /\ max_retry_attempts = DefaultMaxRetryAttempts

InitOverlap ==
    InitState /\ workload = "overlap" /\ max_retry_attempts = DefaultMaxRetryAttempts

\* MAX_RETRY_ATTEMPTS is set in the environment of the process.
InitConfigured ==
    InitState /\ workload = "configured" /\ max_retry_attempts \in 1..MaxRetrySetting

Started == proc[0].pc = "done"

\* --------------------------------------------------------------- database
\* CURRENT_TIMESTAMP, in seconds.  The clock is read only through the stamps
\* it leaves in the table: a statement runs in the second of the latest
\* stamp, or in a later one.
LatestStamp(logs) ==
    IF logs = <<>> THEN 0
    ELSE CHOOSE t \in 0..MaxClock :
           /\ \E i \in 1..Len(logs) : t \in {logs[i].created_at, logs[i].updated_at}
           /\ \A i \in 1..Len(logs) : logs[i].created_at <= t /\ logs[i].updated_at <= t

CurrentTimestamps(logs) ==
    {t \in 0..MaxClock : LatestStamp(logs) <= t /\ t <= LatestStamp(logs) + 1}

\* DatabaseManager.log_tweet: INSERT; the new row's id is cursor.lastrowid.
LogTweetInsert(logs, text, status, now) ==
    Append(logs, [id |-> Len(logs) + 1, tweet_id |-> None, text |-> text,
                  status |-> status, retry_count |-> 0, error_message |-> None,
                  created_at |-> now, updated_at |-> now])

\* (mutant) the status argument is not written.
UpdateTweetLog_StatusDropped(logs, log_id, tweet_id, status, retry_count, error_message, now) ==
    [i \in 1..Len(logs) |->
        IF logs[i].id = log_id
        THEN [logs[i] EXCEPT
                !.tweet_id = IF tweet_id # None THEN tweet_id ELSE @,
                !.error_message = IF error_message # None THEN error_message ELSE @,
                !.updated_at = now]
        ELSE logs[i]]

\* (mutant) the UPDATE has no WHERE clause.
UpdateTweetLog_EveryRow(logs, log_id, tweet_id, status, retry_count, error_message, now) ==
    [i \in 1..Len(logs) |->
        [logs[i] EXCEPT
            !.tweet_id = IF tweet_id # None THEN tweet_id ELSE @,
            !.status = IF status # None THEN status[1] ELSE @,
            !.retry_count = IF retry_count # None THEN retry_count[1] ELSE @,
            !.error_message = IF error_message # None THEN error_message ELSE @,
            !.updated_at = now]]

\* DatabaseManager.update_tweet_log: UPDATE ... WHERE id = log_id of the
\* columns whose argument is not None, and of updated_at.
UpdateTweetLog(logs, log_id, tweet_id, status, retry_count, error_message, now) ==
    [i \in 1..Len(logs) |->
        IF logs[i].id = log_id
        THEN [logs[i] EXCEPT
                !.tweet_id = IF tweet_id # None THEN tweet_id ELSE @,
                !.status = IF status # None THEN status[1] ELSE @,
                !.retry_count = IF retry_count # None THEN retry_count[1] ELSE @,
                !.error_message = IF error_message # None THEN error_message ELSE @,
                !.updated_at = now]
        ELSE logs[i]]

\* ---------------------------------------------------------------- adapter
\* get_twitter_service(): the module global of app.twitter_client.
GetTwitterService == tc_twitter_service

\* (mutant) the retry stops one attempt late.
AttemptFailed_OneMore(rec, E) ==
    IF rec.attempt > StopAfterAttempt
    THEN [rec EXCEPT !.pc = "upd_fail_inner", !.err = E,
                     !.etype = "TwitterClientError"]
    ELSE [rec EXCEPT !.pc = "backoff", !.err = E, !.etype = "TwitterClientError"]

\* tenacity, stop_after_attempt(3) with reraise=True: an attempt that raised E
\* is followed by the back-off sleep, or E leaves create_tweet and is caught
\* by process_tweet_async.  (rec.raised is what the attempt raised.)
AttemptFailed(rec, E) ==
    IF rec.attempt >= StopAfterAttempt
    THEN [rec EXCEPT !.pc = "upd_fail_inner", !.err = E,
                     !.etype = "TwitterClientError"]
    ELSE [rec EXCEPT !.pc = "backoff", !.err = E, !.etype = "TwitterClientError"]

\* authenticate() up to its first await: with a cookie file, load_cookies and
\* the session test; without one, the login.
AuthBegin(rec) ==
    [rec EXCEPT !.auth_called = TRUE, !.logins = 0, !.saves = 0,
                !.login_ok = FALSE, !.auth_ret = "none",
                !.pc = IF cookies_exist THEN "test_auth" ELSE "login"]

\* create_tweet enters its try block: with media, _upload_media decodes the
\* first item, writes temp_media_0.jpg and calls client.upload_media;
\* without, the external client's create_tweet is called.
EnterTry(rec) ==
    IF rec.media > 0
    THEN [rec EXCEPT !.pc = "upload", !.item = 0, !.media_ids = 0]
    ELSE [rec EXCEPT !.pc = "post"]

\* authenticate() returned True: what its caller does up to its next await.
AuthReturned(rec) ==
    LET r == [rec EXCEPT !.auth_ret = "True"] IN
    CASE r.op = "startup" -> [r EXCEPT !.pc = "done"]
      [] r.op = "tweet" -> EnterTry(r)
      [] OTHER -> [r EXCEPT !.pc = "h_test"]

HealthResp(h, ts) ==
    [NoResp EXCEPT !.status = 200, !.health = h, !.twitter_status = ts,
                   !.timestamp = Some("datetime.now()")]

\* authenticate() raised TwitterClientError(E): startup_event logs a warning,
\* create_tweet's attempt ends (line 95 is outside its try), health_check
\* answers disconnected.
AuthRaised(rec, E) ==
    LET r == [rec EXCEPT !.auth_ret = "TwitterClientError"] IN
    CASE r.op = "startup" -> [r EXCEPT !.pc = "done"]
      [] r.op = "tweet" -> AttemptFailed([r EXCEPT !.raised = E], E)
      [] OTHER -> [r EXCEPT !.pc = "done", !.err = E,
                            !.resp = HealthResp("healthy", "disconnected")]

\* One attempt of create_tweet up to its first await.
BeginAttempt(rec) ==
    LET r == [rec EXCEPT !.began_unauth = ~authenticated, !.auth_called = FALSE,
                         !.err = <<>>, !.etype = "none", !.raised = <<>>,
                         !.item = 0, !.media_ids = 0, !.file_lost = FALSE] IN
    IF ~authenticated THEN AuthBegin(r) ELSE EnterTry(r)

\* (mutant) a temporary file is written and never unlinked.
TempFilesAfter_KeepsFile(p, rec) ==
    IF rec.pc = "upload" THEN [temp_files EXCEPT ![rec.item] = p] ELSE temp_files

\* The temporary files after a step of p that ends in rec.  A step that
\* resumes from client.upload_media leaves temp_media_<item>.jpg absent: it
\* is unlinked after the upload (line 178), or in the except clause if it
\* exists (lines 185-186), or it was absent already.  A step that ends in a
\* call of client.upload_media has written temp_media_<item>.jpg with the
\* bytes of p's item (lines 170-172).
TempFilesAfter(p, rec) ==
    LET unlinked == IF proc[p].pc = "upload"
                    THEN [temp_files EXCEPT ![proc[p].item] = 0]
                    ELSE temp_files
    IN IF rec.pc = "upload" THEN [unlinked EXCEPT ![rec.item] = p] ELSE unlinked

\* The step of coroutine p ends in rec: a request whose response has been
\* sent is over, and its slot is free again.
Commit(p, rec) ==
    /\ UNCHANGED Fixed
    /\ temp_files' = TempFilesAfter(p, rec)
    /\ IF rec.pc = "done" /\ rec.op # "startup"
       THEN /\ proc' = [proc EXCEPT ![p] = Idle]
            /\ answered' = rec
       ELSE /\ proc' = [proc EXCEPT ![p] = rec]
            /\ answered' = Idle

\* A new request is served by the first free slot.
Free(p) ==
    /\ p \in Slots
    /\ proc[p].pc = "idle"
    /\ \A q \in Requests : q < p => proc[q].pc # "idle"

\* startup_event: validate_config, init_database, the TwitterService is
\* constructed and bound to the global of app.main, then the warm-up.
StartupInit ==
    /\ proc[0].pc = "init"
    /\ main_twitter_service' = "svc"
    /\ authenticated' = FALSE
    /\ proc' = [proc EXCEPT ![0] = AuthBegin(@)]
    /\ answered' = Idle
    /\ UNCHANGED <<tc_twitter_service, cookies_dir, cookies_exist, tweet_logs,
                   posted, Fixed, temp_files>>

\* authenticate(): the session test of the saved cookies ends.
AuthTestDone(p, ok) ==
    /\ proc[p].pc = "test_auth"
    /\ IF ok
       THEN /\ authenticated' = TRUE
            /\ Commit(p, AuthReturned(proc[p]))
       ELSE /\ authenticated' = authenticated
            /\ Commit(p, [proc[p] EXCEPT !.pc = "login"])
    /\ UNCHANGED <<main_twitter_service, tc_twitter_service, cookies_dir,
                   cookies_exist, tweet_logs, posted>>

\* authenticate(): client.login ends; on success os.makedirs of the cookie
\* file's directory, save_cookies, and the flag.
AuthLoginDone(p, ok, e) ==
    /\ proc[p].pc = "login"
    /\ LET r == [proc[p] EXCEPT !.logins = @ + 1, !.login_ok = ok] IN
       IF ~ok
       THEN /\ Commit(p, AuthRaised(r, AuthFailedText(e)))
            /\ UNCHANGED <<authenticated, cookies_exist>>
       ELSE IF cookies_dir = ""
       THEN /\ Commit(p, AuthRaised(r, AuthFailedText(MakedirsErrorText)))
            /\ UNCHANGED <<authenticated, cookies_exist>>
       ELSE /\ Commit(p, AuthReturned([r EXCEPT !.saves = @ + 1]))
            /\ cookies_exist' = TRUE
            /\ authenticated' = TRUE
    /\ UNCHANGED <<main_twitter_service, tc_twitter_service, cookies_dir,
                   tweet_logs, posted>>

\* create_tweet: the external client's create_tweet ends.  On an exception e
\* the flag is reset when str(e).lower() holds a keyword, and the attempt
\* raises TwitterClientError.
PostClientDone(p, ok, e) ==
    /\ proc[p].pc = "post"
    /\ LET r == proc[p] IN
       IF ok
       THEN /\ posted' = posted + 1
            /\ authenticated' = authenticated
            /\ Commit(p, [r EXCEPT !.tweet = posted + 1, !.pc = "upd_success"])
       ELSE /\ posted' = posted
            /\ authenticated' = IF IsAuthRelated(e) THEN FALSE ELSE authenticated
            /\ Commit(p, AttemptFailed([r EXCEPT !.raised = PublishFailedText(e)],
                                        PublishFailedText(e)))
    /\ UNCHANGED <<main_twitter_service, tc_twitter_service, cookies_dir,
                   cookies_exist, tweet_logs>>

\* _upload_media: client.upload_media of temp_media_<item>.jpg ends.  When
\* it returned, the file is unlinked, which raises FileNotFoundError if the
\* file is gone; then the next item is written and uploaded, or the external
\* client's create_tweet is called.  Every exception becomes
\* TwitterClientError, which the except clause of create_tweet handles as
\* any other: keyword test on its text, and the attempt raises.
UploadDone(p, ok, e) ==
    /\ proc[p].pc = "upload"
    /\ LET r == proc[p]
           present == temp_files[r.item] # 0
           E == MediaFailedText(IF ok THEN UnlinkErrorText ELSE e)
       IN IF ok /\ present
          THEN /\ authenticated' = authenticated
               /\ Commit(p, IF r.item + 1 < r.media
                             THEN [r EXCEPT !.item = @ + 1, !.media_ids = @ + 1]
                             ELSE [r EXCEPT !.media_ids = @ + 1, !.pc = "post"])
          ELSE /\ authenticated' = IF IsAuthRelated(E) THEN FALSE ELSE authenticated
               /\ Commit(p, AttemptFailed([r EXCEPT !.raised = PublishFailedText(E),
                                                    !.file_lost = ok],
                                          PublishFailedText(E)))
    /\ UNCHANGED <<main_twitter_service, tc_twitter_service, cookies_dir,
                   cookies_exist, tweet_logs, posted>>

\* tenacity: the back-off sleep ends and the next attempt starts.
Backoff(p) ==
    /\ proc[p].pc = "backoff"
    /\ Commit(p, BeginAttempt([proc[p] EXCEPT !.attempt = @ + 1]))
    /\ UNCHANGED <<main_twitter_service, tc_twitter_service, authenticated,
                   cookies_dir, cookies_exist, tweet_logs, posted>>

\* ------------------------------------------------------------ POST /api/tweet
TweetTexts == {0, MinTextLength, MaxTextLength, MaxTextLength + 1}

\* (mutant) the upper limit is exclusive.
ValidText_OffByOne(text) == MinTextLength <= text /\ text < MaxTextLength

\* TweetRequest: Field(..., min_length=1, max_length=280).
ValidText(text) == MinTextLength <= text /\ text <= MaxTextLength

Logging == {p \in Requests : proc[p].pc = "log"}

\* The request arrives: pydantic validates the body before the handler runs.
TweetReceive(p, text) ==
    /\ Started
    /\ Free(p)
    /\ IF ValidText(text)
       THEN /\ Len(tweet_logs) + Cardinality(Logging) < RowCap
            /\ Commit(p, [Idle EXCEPT !.op = "tweet", !.pc = "log", !.text = text])
       ELSE Commit(p, [Idle EXCEPT !.op = "tweet", !.pc = "done", !.text = text,
                                   !.resp = [NoResp EXCEPT !.status = 422]])
    /\ UNCHANGED <<main_twitter_service, tc_twitter_service, authenticated,
                   cookies_dir, cookies_exist, tweet_logs, posted>>

\* create_tweet (handler): log_tweet(status="processing"), then
\* process_tweet_async up to its first await.
LogTweet(p, now) ==
    /\ proc[p].pc = "log"
    /\ tweet_logs' = LogTweetInsert(tweet_logs, proc[p].text, "processing", now)
    /\ LET r == [proc[p] EXCEPT !.log_id = Len(tweet_logs) + 1] IN
       Commit(p, IF GetTwitterService = "None"
                 THEN [r EXCEPT !.pc = "upd_fail_inner", !.err = NotInitialisedText,
                                !.etype = "RuntimeError"]
                 ELSE BeginAttempt([r EXCEPT !.attempt = 1]))
    /\ UNCHANGED <<main_twitter_service, tc_twitter_service, authenticated,
                   cookies_dir, cookies_exist, posted>>

\* process_tweet_async: the row is updated to success; the handler then
\* builds TweetResponse, which pydantic may refuse (except Exception, line 229).
UpdSuccess(p, built, now) ==
    /\ proc[p].pc = "upd_success"
    /\ tweet_logs' = UpdateTweetLog(tweet_logs, proc[p].log_id, Some(proc[p].tweet),
                                    Some("success"), None, None, now)
    /\ Commit(p, IF built
                  THEN [proc[p] EXCEPT !.pc = "done",
                          !.resp = [NoResp EXCEPT !.status = 200, !.success = TRUE,
                                                  !.tweet_id = Some(proc[p].tweet)]]
                  ELSE [proc[p] EXCEPT !.pc = "upd_fail_outer",
                          !.err = ValidationErrorText, !.etype = "ValidationError"])
    /\ UNCHANGED <<main_twitter_service, tc_twitter_service, authenticated,
                   cookies_dir, cookies_exist, posted>>

\* process_tweet_async, except Exception: the row is updated to failed and
\* the exception is raised again, into the handler's except clauses.
UpdFailInner(p, now) ==
    /\ proc[p].pc = "upd_fail_inner"
    /\ tweet_logs' = UpdateTweetLog(tweet_logs, proc[p].log_id, None, Some("failed"),
                                    None, Some(proc[p].err), now)
    /\ Commit(p, [proc[p] EXCEPT !.pc = "upd_fail_outer"])
    /\ UNCHANGED <<main_twitter_service, tc_twitter_service, authenticated,
                   cookies_dir, cookies_exist, posted>>

\* (mutant) except Exception shadows except TwitterClientError.
ErrorResp_AlwaysInternal(etype, err) ==
    [NoResp EXCEPT !.status = 500, !.error_code = "INTERNAL_ERROR",
                   !.details = Some(err)]

ErrorResp(etype, err) ==
    IF etype = "TwitterClientError"
    THEN [NoResp EXCEPT !.status = 400, !.error_code = "TWITTER_ERROR",
                        !.details = Some(err)]
    ELSE [NoResp EXCEPT !.status = 500, !.error_code = "INTERNAL_ERROR",
                        !.details = Some(err)]

\* create_tweet (handler), except TwitterClientError / except Exception: the
\* row is updated to failed and HTTPException 400 / 500 is raised.
UpdFailOuter(p, now) ==
    /\ proc[p].pc = "upd_fail_outer"
    /\ tweet_logs' = UpdateTweetLog(tweet_logs, proc[p].log_id, None, Some("failed"),
                                    None, Some(proc[p].err), now)
    /\ Commit(p, [proc[p] EXCEPT !.pc = "done",
                                  !.resp = ErrorResp(proc[p].etype, proc[p].err)])
    /\ UNCHANGED <<main_twitter_service, tc_twitter_service, authenticated,
                   cookies_dir, cookies_exist, posted>>

\* ----------------------------------------------------------------- GET /health
\* health_check (handler) and TwitterService.health_check up to its first await.
HealthReceive(p) ==
    /\ Started
    /\ Free(p)
    /\ LET r == [Idle EXCEPT !.op = "health", !.began_unauth = ~authenticated] IN
       Commit(p, IF GetTwitterService = "None"
                 THEN [r EXCEPT !.pc = "done", !.err = NotInitialisedText,
                                !.etype = "RuntimeError",
                                !.resp = HealthResp("unhealthy", "error")]
                 ELSE IF ~authenticated THEN AuthBegin(r)
                 ELSE [r EXCEPT !.pc = "h_test"])
    /\ UNCHANGED <<main_twitter_service, tc_twitter_service, authenticated,
                   cookies_dir, cookies_exist, tweet_logs, posted>>

\* (mutant) the outcome of the session test is ignored.
HealthTestDone_AlwaysConnected(p, ok) ==
    /\ proc[p].pc = "h_test"
    /\ Commit(p, [proc[p] EXCEPT !.pc = "done", !.test_ok = ok,
                     !.resp = HealthResp("healthy", "connected")])
    /\ UNCHANGED <<main_twitter_service, tc_twitter_service, authenticated,
                   cookies_dir, cookies_exist, tweet_logs, posted>>

\* TwitterService.health_check: its own session test ends.
HealthTestDone(p, ok) ==
    /\ proc[p].pc = "h_test"
    /\ Commit(p, [proc[p] EXCEPT !.pc = "done", !.test_ok = ok,
                     !.resp = HealthResp("healthy",
                                IF ok THEN "connected" ELSE "disconnected")])
    /\ UNCHANGED <<main_twitter_service, tc_twitter_service, authenticated,
                   cookies_dir, cookies_exist, tweet_logs, posted>>

\* --------------------------------------------------------------- GET /api/logs
Min(a, b) == IF a <= b THEN a ELSE b

\* SELECT * FROM tweet_logs ORDER BY created_at DESC LIMIT ?: every order of
\* the rows that descends in created_at (SQLite leaves the order of rows of
\* one second open), cut to the limit; a negative LIMIT is no limit.
GetRecentLogs(logs, limit) ==
    LET n == Len(logs)
        k == IF limit < 0 THEN n ELSE Min(limit, n)
        Orders == {f \in [1..n -> 1..n] :
                     /\ \A i, j \in 1..n : i # j => f[i] # f[j]
                     /\ \A i, j \in 1..n :
                          i < j => logs[f[i]].created_at >= logs[f[j]].created_at}
    IN {[i \in 1..k |-> logs[f[i]]] : f \in Orders}

Limits == {-1, 0, 1, DefaultLogsLimit}

\* get_logs (handler): format_success_response of the rows and their number.
GetLogs(p, limit, rows) ==
    /\ Started
    /\ Free(p)
    /\ rows \in GetRecentLogs(tweet_logs, limit)
    /\ Commit(p, [Idle EXCEPT !.op = "logs", !.pc = "done",
                     !.resp = [NoResp EXCEPT !.status = 200, !.success = TRUE,
                                             !.logs = rows, !.total = Len(rows),
                                             !.limit = limit]])
    /\ UNCHANGED <<main_twitter_service, tc_twitter_service, authenticated,
                   cookies_dir, cookies_exist, tweet_logs, posted>>

\* ------------------------------------------------------------- environment
\* The global of app.twitter_client is bound to the service from outside the
\* module (no code of the repository assigns it): the only way line 231 of
\* get_twitter_service is reached.
InjectService ==
    /\ main_twitter_service # "None"
    /\ tc_twitter_service = "None"
    /\ tc_twitter_service' = main_twitter_service
    /\ answered' = Idle
    /\ UNCHANGED <<main_twitter_service, authenticated, cookies_dir, cookies_exist,
                   tweet_logs, posted, proc, Fixed, temp_files>>

Next ==
    \/ StartupInit
    \/ InjectService
    \/ \E p \in Procs, ok \in BOOLEAN : AuthTestDone(p, ok)
    \/ \E p \in Procs, ok \in BOOLEAN, e \in ExternalErrors : AuthLoginDone(p, ok, e)
    \/ \E p \in Requests, ok \in BOOLEAN, e \in ExternalErrors : PostClientDone(p, ok, e)
    \/ \E p \in Requests : Backoff(p)
    \/ \E p \in Requests, text \in TweetTexts : TweetReceive(p, text)
    \/ \E p \in Requests, now \in CurrentTimestamps(tweet_logs) : LogTweet(p, now)
    \/ \E p \in Requests, built \in BOOLEAN, now \in CurrentTimestamps(tweet_logs) :
         UpdSuccess(p, built, now)
    \/ \E p \in Requests, now \in CurrentTimestamps(tweet_logs) : UpdFailInner(p, now)
    \/ \E p \in Requests, now \in CurrentTimestamps(tweet_logs) : UpdFailOuter(p, now)
    \/ \E p \in Requests : HealthReceive(p)
    \/ \E p \in Requests, ok \in BOOLEAN : HealthTestDone(p, ok)
    \/ \E p \in Requests, limit \in Limits :
         \E rows \in GetRecentLogs(tweet_logs, limit) : GetLogs(p, limit, rows)

\* Requests served one after the other.
Spec == Init /\ [][Next]_vars

\* Requests in flight together.
SpecOverlap == InitOverlap /\ [][Next]_vars

\* Requests served one after the other, MAX_RETRY_ATTEMPTS configured.
SpecConfigured == InitConfigured /\ [][Next]_vars

\* ------------------------------------------------------- tweets with media
\* The service after a startup that found valid cookies, bound to the global
\* that get_twitter_service reads.
InitMedia ==
    /\ main_twitter_service = "svc"
    /\ tc_twitter_service = "svc"
    /\ authenticated = TRUE
    /\ cookies_dir = "data"
    /\ cookies_exist = TRUE
    /\ tweet_logs = <<>>
    /\ posted = 0
    /\ proc = [p \in Procs |->
                 IF p = 0
                 THEN AuthReturned(AuthBegin([Idle EXCEPT !.op = "startup"]))
                 ELSE Idle]
    /\ answered = Idle
    /\ db_call = NoCall
    /\ temp_files = [i \in MediaItems |-> 0]
    /\ workload = "media"
    /\ max_retry_attempts = DefaultMaxRetryAttempts

\* POST /api/tweet with a valid text and a list of media items, each of
\* them valid base64.
TweetReceiveMedia(p, media) ==
    /\ Started
    /\ Free(p)
    /\ Len(tweet_logs) + Cardinality(Logging) < RowCap
    /\ Commit(p, [Idle EXCEPT !.op = "tweet", !.pc = "log", !.text = MinTextLength,
                              !.media = media])
    /\ UNCHANGED <<main_twitter_service, tc_twitter_service, authenticated,
                   cookies_dir, cookies_exist, tweet_logs, posted>>

\* The requests of the run are served within one second, and pydantic
\* accepts the responses.
NextMedia ==
    \/ \E p \in Requests, media \in 1..MaxMedia : TweetReceiveMedia(p, media)
    \/ \E p \in Requests : LogTweet(p, LatestStamp(tweet_logs))
    \/ \E p \in Requests, ok \in BOOLEAN : AuthTestDone(p, ok)
    \/ \E p \in Requests, ok \in BOOLEAN, e \in ExternalErrors : AuthLoginDone(p, ok, e)
    \/ \E p \in Requests, ok \in BOOLEAN, e \in ExternalErrors : UploadDone(p, ok, e)
    \/ \E p \in Requests, ok \in BOOLEAN, e \in ExternalErrors : PostClientDone(p, ok, e)
    \/ \E p \in Requests : Backoff(p)
    \/ \E p \in Requests : UpdSuccess(p, TRUE, LatestStamp(tweet_logs))
    \/ \E p \in Requests : UpdFailInner(p, LatestStamp(tweet_logs))
    \/ \E p \in Requests : UpdFailOuter(p, LatestStamp(tweet_logs))

SpecMedia == InitMedia /\ [][NextMedia]_vars

\* ------------------------------------------------- DatabaseManager, directly
\* The methods of DatabaseManager called on their own, as a unit test of
\* database.py calls them, on a table that init_database has just created.
InitDb ==
    /\ InitState /\ workload = "db" /\ max_retry_attempts = DefaultMaxRetryAttempts
    /\ cookies_dir = "data" /\ cookies_exist = FALSE

DbLogIds == 0..MaxRows
DbTweetIds == {None, Some(1)}
DbStatuses == {None, Some("success")}
DbRetryCounts == {None, Some(1)}
DbErrorMessages == {None, Some(ErrTimeout)}

\* await db_manager.log_tweet(text, status="processing")
DbLogTweet(now) ==
    /\ workload = "db"
    /\ Len(tweet_logs) < MaxRows
    /\ tweet_logs' = LogTweetInsert(tweet_logs, MinTextLength, "processing", now)
    /\ db_call' = [NoCall EXCEPT !.op = "log_tweet", !.now = now]
    /\ UNCHANGED <<main_twitter_service, tc_twitter_service, authenticated,
                   cookies_dir, cookies_exist, posted, proc, answered, workload,
                   max_retry_attempts, temp_files>>

\* await db_manager.update_tweet_log(log_id, tweet_id, status, retry_count,
\*                                   error_message)
DbUpdateTweetLog(log_id, tweet_id, status, retry_count, error_message, now) ==
    /\ workload = "db"
    /\ tweet_logs' = UpdateTweetLog(tweet_logs, log_id, tweet_id, status,
                                    retry_count, error_message, now)
    /\ db_call' = [op |-> "update_tweet_log", log_id |-> log_id,
                   tweet_id |-> tweet_id, status |-> status,
                   retry_count |-> retry_count, error_message |-> error_message,
                   now |-> now]
    /\ UNCHANGED <<main_twitter_service, tc_twitter_service, authenticated,
                   cookies_dir, cookies_exist, posted, proc, answered, workload,
                   max_retry_attempts, temp_files>>

NextDb ==
    \/ \E now \in CurrentTimestamps(tweet_logs) : DbLogTweet(now)
    \/ \E log_id \in DbLogIds, tweet_id \in DbTweetIds, status \in DbStatuses,
          retry_count \in DbRetryCounts, error_message \in DbErrorMessages,
          now \in CurrentTimestamps(tweet_logs) :
         DbUpdateTweetLog(log_id, tweet_id, status, retry_count, error_message, now)

SpecDb == InitDb /\ [][NextDb]_vars

\* A step of coroutine p inside the adapter: an external call of twikit
\* returns or raises, or the back-off sleep ends.
AdapterStep(p) ==
    \/ \E ok \in BOOLEAN : AuthTestDone(p, ok)
    \/ \E ok \in BOOLEAN, e \in ExternalErrors : AuthLoginDone(p, ok, e)
    \/ \E ok \in BOOLEAN, e \in ExternalErrors : PostClientDone(p, ok, e)
    \/ Backoff(p)

\* The event loop resumes every coroutine whose await has completed, and the
\* awaits of the adapter (calls of twikit, asyncio.sleep) complete.
SpecFair == Spec /\ \A p \in Requests : WF_vars(AdapterStep(p))

\* ================================================================== claims
AdapterPcs == {"test_auth", "login", "upload", "post", "backoff"}

\* The request is inside TwitterService.create_tweet.
InAdapter(rec) == rec.op = "tweet" /\ rec.pc \in AdapterPcs

HasRow(rec) == rec.log_id \in 1..Len(tweet_logs)

RowOf(rec) == tweet_logs[rec.log_id]

\* A validated POST /api/tweet has just been answered.
TweetAnswered == answered.op = "tweet" /\ answered.resp.status # 422

\* C1: for a validated POST /api/tweet the row is inserted as 'processing'
\* before the adapter's create_tweet is invoked, the response is sent only
\* after the row has a final status, and a row that is 'processing' belongs
\* to a request that is still being processed.
C1_LogThenAdapterThenFinalThenResponse ==
    /\ \A p \in Requests :
         InAdapter(proc[p]) => HasRow(proc[p]) /\ RowOf(proc[p]).status = "processing"
    /\ TweetAnswered =>
         HasRow(answered) /\ RowOf(answered).status \in {"success", "failed"}
    /\ \A i \in 1..Len(tweet_logs) :
         tweet_logs[i].status = "processing" =>
           \E p \in Requests :
             /\ proc[p].op = "tweet" /\ proc[p].log_id = i
             /\ proc[p].pc \in AdapterPcs \cup {"upd_success", "upd_fail_inner"}

\* C1 witness: a request answered after three attempts of the adapter.
C1_Witness ==
    /\ TweetAnswered /\ answered.attempt = 3 /\ answered.resp.status = 400
    /\ RowOf(answered).status = "failed"

\* C2 (as claimed): a row's status is one of processing, success, failed,
\* and a row that is 'success' never becomes 'failed', nor a 'failed' row
\* 'success'.
C2_StatusNeverLeavesFinal ==
    [][\A i \in 1..Len(tweet_logs) :
         /\ tweet_logs'[i].status \in {"processing", "success", "failed"}
         /\ tweet_logs[i].status = "success" => tweet_logs'[i].status # "failed"
         /\ tweet_logs[i].status = "failed" => tweet_logs'[i].status # "success"]_vars

\* C3: when publishing fails for a validated request, the row ends 'failed'
\* with the text of the error as error_message, a TwitterClientError is
\* answered 400 TWITTER_ERROR and any other error 500 INTERNAL_ERROR, and a
\* success response is sent only for a published tweet.
C3_FailureIsLoggedAndSurfaced ==
    /\ (TweetAnswered /\ answered.tweet = 0) =>
         /\ HasRow(answered)
         /\ RowOf(answered).status = "failed"
         /\ RowOf(answered).error_message = Some(answered.err)
         /\ answered.err # <<>>
         /\ answered.resp.success = FALSE
         /\ answered.resp.details = Some(answered.err)
         /\ answered.etype = "TwitterClientError" =>
              answered.resp.status = 400 /\ answered.resp.error_code = "TWITTER_ERROR"
         /\ answered.etype # "TwitterClientError" =>
              answered.resp.status = 500 /\ answered.resp.error_code = "INTERNAL_ERROR"
    /\ (answered.op = "tweet" /\ answered.resp.success) => answered.tweet # 0

\* C3 witness: an adapter failure answered 400 with the adapter's error text.
C3_Witness ==
    /\ TweetAnswered /\ answered.tweet = 0
    /\ answered.etype = "TwitterClientError"
    /\ answered.resp.status = 400
    /\ RowOf(answered).error_message = Some(PublishFailedText(ErrTimeout))

\* C4 (as claimed): once startup_event has completed, get_twitter_service()
\* returns the instance startup created, so no validated request and no
\* health check ends in 'service not initialised'.
C4_ServiceAvailableAfterStartup ==
    /\ Started => (GetTwitterService # "None" /\ GetTwitterService = main_twitter_service)
    /\ answered.op \in {"tweet", "health"} => answered.etype # "RuntimeError"

\* The record of coroutine p after the step: the step that sends p's
\* response frees the slot and leaves the record in answered.
After(p) == IF proc[p] # Idle /\ proc'[p] = Idle THEN answered' ELSE proc'[p]

\* An attempt of create_tweet ends in its except clause (line 131).
PostFailedStep(p) ==
    /\ proc[p].op = "tweet" /\ proc[p].pc = "post"
    /\ proc'[p].pc \in {"backoff", "upd_fail_inner"}

\* An attempt of create_tweet ends because authenticate() raised (line 95).
AuthFailedStep(p) ==
    /\ proc[p].op = "tweet" /\ proc[p].pc = "login"
    /\ proc'[p].pc \in {"backoff", "upd_fail_inner"}

PostSucceededStep(p) == proc[p].pc = "post" /\ proc'[p].pc = "upd_success"

\* The error texts of the model that hold a keyword: 'Login failed' holds
\* 'login' once lowered.
AuthRelatedTexts == {PublishFailedText(ErrLoginFailed), AuthFailedText(ErrLoginFailed)}

\* An attempt that starts unauthenticated calls authenticate() before the
\* external client's create_tweet.
ReauthenticatesFirst(rec) ==
    (rec.op = "tweet" /\ rec.pc = "post" /\ rec.began_unauth) => rec.auth_called

C6_AtMostThreeAttemptsThenGiveUp ==
    /\ [](\A p \in Requests : proc[p].attempt <= 3)
    /\ [][\A p \in Requests :
            /\ PostSucceededStep(p) =>
                 /\ proc'[p].tweet = posted' /\ posted' = posted + 1
                 /\ proc'[p].attempt = proc[p].attempt
            /\ proc[p].pc \in {"upd_success", "upd_fail_inner", "upd_fail_outer"} =>
                 proc'[p].pc \notin AdapterPcs
            /\ (InAdapter(proc[p]) /\ proc'[p].pc = "upd_fail_inner") =>
                 /\ proc[p].attempt = 3
                 /\ proc'[p].raised # <<>> /\ proc'[p].err = proc'[p].raised
                 /\ proc'[p].etype = "TwitterClientError"
            /\ (InAdapter(proc[p]) /\ proc[p].pc # "backoff" /\ proc'[p].pc = "backoff") =>
                 proc[p].attempt < 3
            /\ (InAdapter(proc[p]) /\ InAdapter(proc'[p])) =>
                 proc'[p].attempt = IF proc[p].pc = "backoff" THEN proc[p].attempt + 1
                                    ELSE proc[p].attempt]_vars
    /\ \A p \in Requests : InAdapter(proc[p]) ~> ~InAdapter(proc[p])

\* C6 witness: the call gave up after its third attempt.
C6_Witness ==
    \E p \in Requests :
      /\ proc[p].pc = "upd_fail_inner" /\ proc[p].attempt = 3
      /\ proc[p].etype = "TwitterClientError"

\* C7: a text that is empty or longer than 280 is answered 422 with no row
\* inserted and the adapter not called; a text of 1 to 280 characters is not
\* answered 422.
C7_InvalidTextRejectedBeforeProcessing ==
    /\ answered.op = "tweet" =>
         (answered.resp.status = 422 <=> (answered.text < 1 \/ answered.text > 280))
    /\ (answered.op = "tweet" /\ answered.resp.status = 422) =>
         answered.log_id = 0 /\ answered.attempt = 0 /\ answered.tweet = 0
    /\ \A i \in 1..Len(tweet_logs) : 1 <= tweet_logs[i].text /\ tweet_logs[i].text <= 280
    /\ \A p \in Requests :
         proc[p].op = "tweet" => (1 <= proc[p].text /\ proc[p].text <= 280)

\* C7 witness: a text of 281 characters has been answered 422.
C7_Witness == answered.op = "tweet" /\ answered.text = 281 /\ answered.resp.status = 422

\* C8 (as claimed): authenticate() returns True with the flag set, or raises
\* TwitterClientError; on the login path it calls login once, and saves the
\* cookies once exactly when the login succeeded; a failed login saves
\* nothing and does not set the flag.
C8_AuthenticateOutcomes ==
    [][\A p \in Procs :
         (proc[p].pc \in {"test_auth", "login"} /\ After(p).pc \notin {"test_auth", "login"}) =>
           LET r == After(p) IN
           /\ r.auth_ret \in {"True", "TwitterClientError"}
           /\ r.auth_ret = "True" => authenticated'
           /\ proc[p].pc = "test_auth" => r.logins = 0 /\ r.saves = 0
           /\ proc[p].pc = "login" =>
                /\ r.logins = 1
                /\ r.login_ok => (r.saves = 1 /\ r.auth_ret = "True" /\ cookies_exist')
                /\ ~r.login_ok =>
                     /\ r.saves = 0 /\ r.auth_ret = "TwitterClientError"
                     /\ authenticated' = authenticated
                     /\ cookies_exist' = cookies_exist]_vars

\* C9: GET /health is always answered 200 with status, timestamp and
\* twitter_status; when the service is consulted, authenticate() is called
\* exactly when the service is not authenticated, and twitter_status is
\* 'connected' exactly when that and the session test succeeded, and
\* 'disconnected' otherwise.
C9_HealthAlwaysAnswers ==
    answered.op = "health" =>
      /\ answered.resp.status = 200
      /\ answered.resp.health \in {"healthy", "unhealthy"}
      /\ answered.resp.timestamp # None
      /\ answered.resp.twitter_status \in {"connected", "disconnected", "error"}
      /\ answered.etype # "RuntimeError" =>
           /\ answered.resp.twitter_status \in {"connected", "disconnected"}
           /\ answered.resp.twitter_status = "connected" <=>
                (answered.auth_ret # "TwitterClientError" /\ answered.test_ok)
           /\ answered.auth_called <=> answered.began_unauth

\* C9 witness: a health check that had to authenticate answered 'connected'.
C9_Witness ==
    /\ answered.op = "health" /\ answered.auth_called
    /\ answered.resp.twitter_status = "connected"

\* C10 (as claimed): GET /api/logs answers success with the most recently
\* created rows, newest first, no more than limit of them, and their number
\* as total.
C10_LogsNewestFirst ==
    (answered.op = "logs" /\ answered.resp.limit >= 0) =>
      LET got == answered.resp.logs
          n == Len(tweet_logs)
          k == IF answered.resp.limit <= n THEN answered.resp.limit ELSE n
      IN /\ answered.resp.status = 200 /\ answered.resp.success
         /\ answered.resp.total = Len(got)
         /\ Len(got) <= answered.resp.limit
         /\ Len(got) = k
         /\ \A i \in 1..Len(got) : got[i] = tweet_logs[n - i + 1]

\* create_tweet raised out of its last attempt.
GaveUp(rec) ==
    rec.op = "tweet" /\ rec.pc = "upd_fail_inner" /\ rec.etype = "TwitterClientError"

\* C11 (as claimed): a call of create_tweet never makes more attempts than
\* the configured max_retry_attempts, and a call whose attempts all fail
\* makes exactly that many.
C11_AttemptsFollowSetting ==
    \A p \in Requests :
      /\ proc[p].op = "tweet" => proc[p].attempt <= max_retry_attempts
      /\ GaveUp(proc[p]) => proc[p].attempt = max_retry_attempts

\* C12 (as claimed): when a POST /api/tweet that reached the adapter has
\* been answered, retry_count of its row is the number of attempts of
\* create_tweet made for it beyond the first.
C12_RetryCountIsAttemptsBeyondFirst ==
    (TweetAnswered /\ HasRow(answered) /\ answered.attempt >= 1) =>
      RowOf(answered).retry_count = answered.attempt - 1

\* C13: update_tweet_log(log_id, ...) writes, in the row with that id only,
\* the columns whose argument is not None and updated_at; the row's id, text
\* and created_at, the columns whose argument is None and every other row
\* stay as they are, and a log_id that matches no row changes nothing.
C13_UpdateWritesGivenColumnsOfOneRow ==
    [][db_call'.op = "update_tweet_log" =>
         LET c == db_call'
             old == tweet_logs
             new == tweet_logs'
         IN /\ Len(new) = Len(old)
            /\ \A i \in 1..Len(old) :
                 IF old[i].id = c.log_id
                 THEN /\ new[i].id = old[i].id
                      /\ new[i].text = old[i].text
                      /\ new[i].created_at = old[i].created_at
                      /\ new[i].tweet_id =
                           IF c.tweet_id = None THEN old[i].tweet_id ELSE c.tweet_id
                      /\ new[i].status =
                           IF c.status = None THEN old[i].status ELSE c.status[1]
                      /\ new[i].retry_count =
                           IF c.retry_count = None THEN old[i].retry_count
                           ELSE c.retry_count[1]
                      /\ new[i].error_message =
                           IF c.error_message = None THEN old[i].error_message
                           ELSE c.error_message
                      /\ new[i].updated_at = c.now
                 ELSE new[i] = old[i]
            /\ (\A i \in 1..Len(old) : old[i].id # c.log_id) => new = old]_vars

\* C13 witness: an update has written the status and the tweet id of one row
\* of a table of two, and nothing else.
C13_Witness ==
    /\ db_call.op = "update_tweet_log"
    /\ db_call.status # None /\ db_call.tweet_id # None
    /\ db_call.retry_count = None /\ db_call.error_message = None
    /\ \E i, j \in 1..Len(tweet_logs) :
         /\ tweet_logs[i].id = db_call.log_id /\ tweet_logs[i].status = "success"
         /\ tweet_logs[i].tweet_id = db_call.tweet_id
         /\ tweet_logs[i].retry_count = 0 /\ tweet_logs[i].error_message = None
         /\ j # i /\ tweet_logs[j].status = "processing"

\* C15 (as claimed): a request publishes at most one tweet: the external
\* create_tweet returns a tweet only to a request that has none yet, a
\* request that has its tweet never enters the adapter again, and when it is
\* answered its row has status 'success' and that tweet's id.
C15_AtMostOneTweetAndRowSuccess ==
    /\ [][\A p \in Requests :
            /\ PostSucceededStep(p) => (proc[p].tweet = 0 /\ posted' = posted + 1)
            /\ proc[p].tweet # 0 => ~InAdapter(proc'[p])]_vars
    /\ []((TweetAnswered /\ answered.tweet # 0) =>
            /\ HasRow(answered)
            /\ RowOf(answered).status = "success"
            /\ RowOf(answered).tweet_id = Some(answered.tweet))

\* A step of p returns from client.upload_media and the attempt ends.
UploadFailedStep(p) ==
    proc[p].pc = "upload" /\ proc'[p].pc \notin {"upload", "post"}

\* C14: with media, the external client's create_tweet is called only when
\* every item of the request has been uploaded; an upload that fails ends
\* the attempt with TwitterClientError and no tweet posted; and once
\* _upload_media has returned or raised, no temporary file it wrote remains.
C14_UploadAllThenPostAndCleanUp ==
    /\ [](\A p \in Requests :
            /\ (proc[p].op = "tweet" /\ proc[p].pc = "post") =>
                 proc[p].media_ids = proc[p].media
            /\ proc[p].pc = "upload" =>
                 proc[p].media_ids = proc[p].item /\ proc[p].item < proc[p].media
            /\ \A i \in MediaItems :
                 temp_files[i] = p => (proc[p].pc = "upload" /\ proc[p].item = i))
    /\ [][\A p \in Requests :
            UploadFailedStep(p) =>
              /\ posted' = posted
              /\ proc'[p].pc \in {"backoff", "upd_fail_inner"}
              /\ proc'[p].etype = "TwitterClientError"
              /\ proc'[p].tweet = 0]_vars

\* C14 witness: both items of a request have been uploaded, the external
\* create_tweet is being called and no temporary file is left.
C14_Witness ==
    \E p \in Requests :
      /\ proc[p].op = "tweet" /\ proc[p].pc = "post"
      /\ proc[p].media >= 2 /\ proc[p].media_ids = proc[p].media
      /\ \A i \in MediaItems : temp_files[i] = 0

\* C16 (as claimed): with two requests with media in flight, every call of
\* client.upload_media is made on a file that holds the bytes of the calling
\* request, and no attempt fails because its temporary file was overwritten
\* or deleted by the other request.
C16_NoInterferenceThroughTempFiles ==
    /\ [](\A p \in Requests : ~proc[p].file_lost)
    /\ [][\A p \in Requests :
            (proc'[p] # proc[p] /\ proc'[p].pc = "upload") =>
              temp_files'[proc'[p].item] = p]_vars

====
